---- MODULE Spec2Model ----
(***************************************************************************)
(* The volunteer calendar (components/EventCalendar.tsx) against its Store *)
(* (the Supabase schema).  Two views of the same program:                  *)
(*   Spec      the assignment handlers of several clients racing on the    *)
(*             Store, each validating against its own snapshot;            *)
(*   SpecSync  one client's sync controller (change feed, throttle,        *)
(*             polling fallback) on a clock of one-second ticks, with the  *)
(*             other clients' Store mutations as the environment.          *)
(***************************************************************************)
EXTENDS Integers, Sequences, FiniteSets, TLC

Clients == {"c1", "c2"}
Volunteers == {"v1", "v2"}
TaskIds == {"t1", "t2"}
Null == "null"

\* Bounds of the model.
MaxIds == 2
MaxInFlight == 2
MaxLatency == 1
MaxTasks == 3
DayTicks == 3

\* The sync controller's constants, in seconds.
POLL_INTERVAL == 5
QUIET_THRESHOLD == 30
WATCH_INTERVAL == 2
COOLDOWN == 1

\* The client whose sync controller SpecSync follows, and the rows the other
\* clients insert and delete meanwhile.
SyncClient == "c1"
EnvTasks == {"t1"}
EnvVolunteers == {"v2"}
\* A task the organiser deleted: it is in no snapshot, yet a request for it can
\* still arrive (a pending assignment, a click racing the re-render).
GoneTaskIds == {"t0"}

\* The event and its tasks (rows of events and tasks): hours are end - start.
Event == [max_volunteer_hours |-> 8]
Task == [t1 |-> [volunteers_required |-> 1, hours |-> 5],
         t2 |-> [volunteers_required |-> 1, hours |-> 4]]

VARIABLES
  task_assignments,  \* Store: rows [id, task_id, volunteer_id]
  nextId,            \* Store: next generated assignment id
  volunteerId,       \* per client: useState volunteerId
  tasks,             \* per client: useState tasks (the snapshot's assignment rows)
  error,             \* per client: useState error
  showAuthModal,     \* per client
  pendingTaskId,     \* per client
  call,              \* per client: the handler suspended at an await
  reads,             \* per client: Store reads in flight, in issue order
  lastIssued,        \* per client: the rows answered to the most recently issued read
  bcInbox,           \* per client: a 'refresh' message queued on the BroadcastChannel
  \* the sync controller of SyncClient, on a clock of one-second ticks
  quietAge,          \* Date.now() - lastRealtimeRef.current, capped
  refreshAge,        \* Date.now() - lastRefreshRef.current, capped
  pendingRefresh,    \* pendingRefreshRef: ticks until the timeout fires, -1 when null
  pollRef,           \* pollRef: ticks until the interval fires, -1 when null
  watcher,           \* ticks until the watcher interval fires
  feedUp,            \* the change feed delivers signals
  feedBroad,         \* a signal waits at the task_assignments subscription
  feedFiltered,      \* a signal waits at the filtered subscription
  feedSeen,          \* a change-feed signal was handled since polling last started
  mutAge,            \* ticks since the last Store mutation, capped
  mutPolling,        \* that mutation was made with the feed down, while polling was
                     \* armed and had seen no change-feed signal
  timeouts,          \* the armed setTimeout timers of throttledRefresh: ticks left
  feedTasks,         \* a signal waits at the tasks subscription
  \* the browser the tabs share, and sign-in
  localStorage,      \* the item volunteer_<event id>: [id, name]
  volunteers,        \* Store: rows [id, name] of the event's volunteers
  authCall,          \* per client: handleAuth suspended at an await
  returnedNoTask,    \* history: a handler returned because tasks.find found nothing
  \* the day layout
  day,               \* the day getDayItems lays out
  filteredTasks,     \* the task list it lays out
  positioned,        \* its result: the items with their column
  laidOut,           \* getDayItems has returned
  \* the tabs of one browser on the event's BroadcastChannel
  changes,           \* Store changes made so far
  broadQueue,        \* per tab: signals waiting at the task_assignments subscription
  filteredQueue,     \* per tab: signals waiting at the filtered subscription
  bcQueue,           \* per tab: 'refresh' messages waiting at onmessage
  posted,            \* postMessage('refresh') calls made so far
  \* the life cycle of one view: its effects, channels and timers
  mounted,           \* the component is mounted
  eventId,           \* the event prop's id
  snapshotIds,       \* the ids of the snapshot's tasks
  channels,          \* the realtime channels the client holds: [id, kind, filter, event]
  channelRef,        \* per kind of subscription: the channel its ref holds, 0 when null
  removals,          \* per channel id: the removeChannel calls made on it
  nextChannel,       \* the id of the next channel
  timers,            \* per timer: the event id of the render that armed it, Null when cleared
  staleRefresh,      \* history: a timer refreshed for another event, or after unmount
  cleaned,           \* per kind: its cleanup has run and its effect has not run since
  \* the calendar's filters
  taskList,          \* useState tasks: the snapshot's task rows, ordered by start
  filterTaskType,    \* useState filterTaskType
  filterVolunteer,   \* useState filterVolunteer
  \* collaborative cursors, on a clock of one-second ticks and 40 ms steps
  cursors,           \* per client: useState cursors, volunteer id -> [leftPct, topPct, age]
                     \* with age = Date.now() - lastSeen in seconds, capped
  lastCursorSentRef, \* per client: 40 ms steps since lastCursorSentRef.current, capped
  lastLocalCursorRef, \* per client: lastLocalCursorRef.current, <<point>>, <<>> when null
  pruneInterval,     \* per client: ticks until pruneInterval fires
  sinceBroadcast,    \* per client: 40 ms steps since its last cursor broadcast, capped
  closeBroadcast,    \* history: a broadcast came less than 80 ms after the previous one
  \* refreshes whose read may fail
  volunteerList,     \* per client: useState volunteers (the snapshot's volunteer rows)
  lastRead           \* history, per client: how its last refresh read ended

storeVars == <<task_assignments, nextId>>
clientVars == <<volunteerId, tasks, error, showAuthModal,
                pendingTaskId, call, reads, lastIssued, bcInbox>>
syncVars == <<quietAge, refreshAge, pendingRefresh, pollRef, watcher, feedUp,
              feedBroad, feedFiltered, feedSeen, mutAge, mutPolling,
              timeouts, feedTasks>>
authVars == <<volunteers, authCall>>
layoutVars == <<day, filteredTasks, positioned, laidOut>>
\* What the assignment handlers and the sync controller never touch.
tabsVars == <<changes, broadQueue, filteredQueue, bcQueue, posted>>
viewVars == <<mounted, eventId, snapshotIds, channels, channelRef, removals,
              nextChannel, timers, staleRefresh, cleaned>>
filterVars == <<taskList, filterTaskType, filterVolunteer>>
cursorVars == <<cursors, lastCursorSentRef, lastLocalCursorRef, pruneInterval,
                sinceBroadcast, closeBroadcast>>
refreshVars == <<volunteerList, lastRead>>
moreVars == <<filterVars, cursorVars, refreshVars>>
restVars == <<tabsVars, viewVars, moreVars>>
otherVars == <<authVars, layoutVars, restVars>>
\* What the sync controller never touches.
sessionVars == <<localStorage, returnedNoTask, otherVars>>
vars == <<storeVars, clientVars, syncVars, localStorage, returnedNoTask, otherVars>>
\* What the cursor handlers never touch.
notCursor == <<storeVars, clientVars, syncVars, localStorage, returnedNoTask, authVars,
               layoutVars, tabsVars, viewVars, filterVars, refreshVars>>

NoError == [kind |-> "none", current |-> 0, task |-> 0]
Idle == [pc |-> "idle", task |-> Null, vol |-> Null, id |-> 0]
\* localStorage.getItem returns null.
NoVolunteer == [id |-> Null, name |-> Null]
\* handleAuth is not running.
AuthIdle == [pc |-> "idle", name |-> Null, id |-> Null]

\* ---------------------------------------------------------------- Store

\* UNIQUE(task_id, volunteer_id) is the only constraint on task_assignments.
unique_volunteer_per_task(rows, t, v) ==
  ~\E a \in rows : a.task_id = t /\ a.volunteer_id = v

\* ---------------------------------------------------------------- pure helpers

IsAssigned(snap, t, v) == \E a \in snap : a.task_id = t /\ a.volunteer_id = v

AssignmentCount(snap, t) == Cardinality({a \in snap : a.task_id = t})

RECURSIVE SumHours(_)
SumHours(S) ==
  IF S = {} THEN 0
  ELSE LET t == CHOOSE x \in S : TRUE IN Task[t].hours + SumHours(S \ {t})

\* Total hours of the tasks on which volunteer v holds an assignment in snap.
HoursOf(snap, v) == SumHours({t \in TaskIds : IsAssigned(snap, t, v)})

\* calculateVolunteerHours reads the component's volunteerId state.
calculateVolunteerHours(snap, stateVol) ==
  IF stateVol = Null THEN 0 ELSE HoursOf(snap, stateVol)

\* The checks of handleAssignTask before the insert, in the code's order.
ValidateAssign(snap, t, effectiveVolunteerId, stateVol) ==
  IF IsAssigned(snap, t, effectiveVolunteerId) THEN "dup"
  ELSE IF AssignmentCount(snap, t) >= Task[t].volunteers_required THEN "full"
  ELSE IF Event.max_volunteer_hours # 0
          /\ calculateVolunteerHours(snap, stateVol) + Task[t].hours
               > Event.max_volunteer_hours
       THEN "hourcap"
  ELSE "insert"

\* tasks.find(t => t.id === taskId) on a snapshot, which lists the event's tasks.
HasTask(snap, t) == t \in TaskIds

\* A handler that throws on the missing task and shows the exception.
TaskNotFoundThrows(c) ==
  /\ error' = [error EXCEPT ![c] = [kind |-> "failed", current |-> 0, task |-> 0]]
  /\ returnedNoTask' = TRUE
  /\ UNCHANGED call

\* setError(null) ... if (!task) return
TaskNotFound(c) ==
  /\ error' = [error EXCEPT ![c] = NoError]
  /\ returnedNoTask' = TRUE
  /\ UNCHANGED call

\* The effect of handleAssignTask's synchronous part on client c: setError(null),
\* the task lookup, the checks, and the insert request.
AssignBody(c, t, eff, snap, stateVol) ==
  IF ~HasTask(snap, t)
  THEN TaskNotFound(c)
  ELSE
  LET r == ValidateAssign(snap, t, eff, stateVol) IN
  /\ error' = [error EXCEPT ![c] =
       CASE r = "dup" -> [kind |-> "dup", current |-> 0, task |-> 0]
         [] r = "full" -> [kind |-> "full", current |-> 0, task |-> 0]
         [] r = "hourcap" -> [kind |-> "hourcap",
                              current |-> calculateVolunteerHours(snap, stateVol),
                              task |-> Task[t].hours]
         [] OTHER -> NoError]
  /\ call' = [call EXCEPT ![c] =
       IF r = "insert" THEN [Idle EXCEPT !.pc = "insert", !.task = t, !.vol = eff]
       ELSE Idle]
  /\ UNCHANGED returnedNoTask

\* ---------------------------------------------------------------- reads

\* refreshTasks, response side: setTasks(data), whatever was applied before.
ApplyRead(snapshot, data) == data

\* refreshTasks run to completion: the snapshot becomes the Store's rows.
refreshTasks(c, rows) == tasks' = [tasks EXCEPT ![c] = ApplyRead(@, rows)]

\* A tab that posts nothing.
PostNothing(c) == UNCHANGED bcInbox

\* bcRef.current?.postMessage('refresh'): queued at every other tab.
PostRefresh(c) == bcInbox' = [d \in Clients |-> IF d = c THEN bcInbox[d] ELSE TRUE]

\* bcRef.current.onmessage: a sibling tab posted 'refresh'.
BcMessage(c) ==
  /\ bcInbox[c]
  /\ bcInbox' = [bcInbox EXCEPT ![c] = FALSE]
  /\ refreshTasks(c, task_assignments)
  /\ UNCHANGED <<sessionVars, storeVars, volunteerId, error, showAuthModal,
                 pendingTaskId, call, reads, lastIssued, syncVars>>

\* Any of the timed triggers (poll, feed handler, throttle timer) completing a
\* refreshTasks; in the untimed specification they may fire at any moment.
SyncRefresh(c) ==
  /\ tasks[c] # task_assignments
  /\ refreshTasks(c, task_assignments)
  /\ UNCHANGED <<sessionVars, storeVars, volunteerId, error, showAuthModal,
                 pendingTaskId, call, reads, lastIssued, bcInbox, syncVars>>

\* ---------------------------------------------------------------- handlers

handleAssignTask(c, t) ==
  /\ call[c].pc = "idle"
  /\ IF volunteerId[c] = Null
     THEN /\ pendingTaskId' = [pendingTaskId EXCEPT ![c] = t]
          /\ showAuthModal' = [showAuthModal EXCEPT ![c] = TRUE]
          /\ UNCHANGED <<error, call, returnedNoTask>>
     ELSE /\ AssignBody(c, t, volunteerId[c], tasks[c], volunteerId[c])
          /\ UNCHANGED <<pendingTaskId, showAuthModal>>
  /\ UNCHANGED <<localStorage, otherVars, storeVars, volunteerId, tasks, reads,
                 lastIssued, bcInbox, syncVars>>

\* The message of a Store error: "unique" for the constraint violation of an
\* insert, "failed" for a request that did not go through.
StoreError(msg) == [kind |-> msg, current |-> 0, task |-> 0]

\* What the catch block of the two mutation handlers does with a Store error.
OnStoreError(c, msg) ==
  /\ error' = [error EXCEPT ![c] = StoreError(msg)]
  /\ call' = [call EXCEPT ![c] = Idle]
  /\ UNCHANGED <<tasks, bcInbox>>

\* What the two mutation handlers do once the Store has taken the mutation.
OnStoreSuccess(c) ==
  /\ refreshTasks(c, task_assignments')
  /\ PostRefresh(c)
  /\ call' = [call EXCEPT ![c] = Idle]
  /\ UNCHANGED error

\* A Store without the uniqueness constraint.
InsertAcceptedAlways(rows, t, v) == TRUE

\* Whether the Store takes the row handleAssignTask inserts.
InsertAccepted(rows, t, v) == unique_volunteer_per_task(rows, t, v)

\* The Store executes the insert and handleAssignTask resumes.
AssignInsertResponse(c) ==
  /\ call[c].pc = "insert"
  /\ LET t == call[c].task
         v == call[c].vol IN
     IF InsertAccepted(task_assignments, t, v)
     THEN /\ nextId <= MaxIds
          /\ task_assignments' = task_assignments \cup
               {[id |-> nextId, task_id |-> t, volunteer_id |-> v]}
          /\ nextId' = nextId + 1
          /\ OnStoreSuccess(c)
     ELSE /\ OnStoreError(c, "unique")
          /\ UNCHANGED storeVars
  /\ UNCHANGED <<sessionVars, volunteerId, showAuthModal, pendingTaskId,
                 reads, lastIssued, syncVars>>

handleUnassignTask(c, t) ==
  /\ call[c].pc = "idle"
  /\ volunteerId[c] # Null
  /\ LET mine == {a \in tasks[c] : a.task_id = t /\ a.volunteer_id = volunteerId[c]} IN
     IF ~HasTask(tasks[c], t)
     THEN TaskNotFound(c)
     ELSE /\ error' = [error EXCEPT ![c] = NoError]
          /\ UNCHANGED returnedNoTask
          /\ IF mine = {} THEN UNCHANGED call
             ELSE \E a \in mine :
                    call' = [call EXCEPT ![c] =
                      [Idle EXCEPT !.pc = "delete", !.task = t,
                                   !.vol = volunteerId[c], !.id = a.id]]
  /\ UNCHANGED <<localStorage, otherVars, storeVars, volunteerId, tasks, showAuthModal,
                 pendingTaskId, reads, lastIssued, bcInbox, syncVars>>

\* The Store executes the delete (or the request fails) and the handler resumes.
UnassignDeleteResponse(c, failed) ==
  /\ call[c].pc = "delete"
  /\ IF failed
     THEN /\ OnStoreError(c, "failed")
          /\ UNCHANGED storeVars
     ELSE /\ task_assignments' = {a \in task_assignments : a.id # call[c].id}
          /\ OnStoreSuccess(c)
          /\ UNCHANGED nextId
  /\ UNCHANGED <<sessionVars, volunteerId, showAuthModal, pendingTaskId,
                 reads, lastIssued, syncVars>>

\* handleAuth: the volunteer is resolved by name, the view signs in, and the
\* pending assignment runs through the handleAssignTask of the render that
\* submitted the form, whose volunteerId state is still the one of that render.
handleAuth(c, name) ==
  /\ call[c].pc = "idle"
  /\ showAuthModal[c]
  /\ localStorage' = [id |-> name, name |-> name]
  /\ volunteerId' = [volunteerId EXCEPT ![c] = name]
  /\ showAuthModal' = [showAuthModal EXCEPT ![c] = FALSE]
  /\ IF pendingTaskId[c] # Null
     THEN /\ pendingTaskId' = [pendingTaskId EXCEPT ![c] = Null]
          /\ AssignBody(c, pendingTaskId[c], name, tasks[c], volunteerId[c])
     ELSE /\ error' = [error EXCEPT ![c] = NoError]
          /\ UNCHANGED <<pendingTaskId, call, returnedNoTask>>
  /\ UNCHANGED <<otherVars, storeVars, tasks, reads, lastIssued, bcInbox, syncVars>>

handleSignOut(c) ==
  /\ call[c].pc = "idle"
  /\ volunteerId[c] # Null
  /\ volunteerId' = [volunteerId EXCEPT ![c] = Null]
  /\ localStorage' = NoVolunteer
  /\ UNCHANGED <<returnedNoTask, otherVars, storeVars, tasks, error, showAuthModal,
                 pendingTaskId, call, reads, lastIssued, bcInbox, syncVars>>

\* ---------------------------------------------------------------- sign-in

\* The names typed into the sign-in form.
AuthNames == {"ann", "bob"}

\* A Store without the name constraint.
NameFreeAlways(rows, name) == TRUE

\* unique_volunteer_name_per_event UNIQUE(event_id, name)
unique_volunteer_name_per_event(rows, name) == ~\E r \in rows : r.name = name

\* gen_random_uuid(): an id no row has had.
FreshVolunteerIds(rows) == Volunteers \ {r.id : r \in rows}

\* The "Sign In to Volunteer" button.
OpenAuthModal(c) ==
  /\ volunteerId[c] = Null
  /\ ~showAuthModal[c]
  /\ showAuthModal' = [showAuthModal EXCEPT ![c] = TRUE]
  /\ UNCHANGED <<storeVars, volunteerId, tasks, error, pendingTaskId, call, reads,
                 lastIssued, bcInbox, syncVars, sessionVars>>

\* handleAuth up to its first await: setError(null) and the lookup by name.
handleAuthSubmit(c, name) ==
  /\ showAuthModal[c]
  /\ authCall[c].pc = "idle"
  /\ error' = [error EXCEPT ![c] = NoError]
  /\ authCall' = [authCall EXCEPT ![c] = [pc |-> "select", name |-> name, id |-> Null]]
  /\ UNCHANGED <<storeVars, volunteerId, tasks, showAuthModal, pendingTaskId, call,
                 reads, lastIssued, bcInbox, syncVars, localStorage, returnedNoTask,
                 volunteers, layoutVars, restVars>>

\* handleAuth once the volunteer's id is known: the id is persisted and held,
\* the modal closes, and the pending assignment runs through the
\* handleAssignTask of the render that submitted the form.
AuthSignedIn(c, id, name) ==
  /\ localStorage' = [id |-> id, name |-> name]
  /\ volunteerId' = [volunteerId EXCEPT ![c] = id]
  /\ showAuthModal' = [showAuthModal EXCEPT ![c] = FALSE]
  /\ authCall' = [authCall EXCEPT ![c] = AuthIdle]
  /\ IF pendingTaskId[c] # Null
     THEN /\ pendingTaskId' = [pendingTaskId EXCEPT ![c] = Null]
          /\ AssignBody(c, pendingTaskId[c], id, tasks[c], volunteerId[c])
     ELSE UNCHANGED <<pendingTaskId, error, call, returnedNoTask>>

\* The lookup returns: an existing volunteer signs in, a new name goes on to
\* the insert.
AuthSelectResponse(c) ==
  /\ authCall[c].pc = "select"
  /\ LET name == authCall[c].name
         existingVolunteer == {r \in volunteers : r.name = name} IN
     IF existingVolunteer # {}
     THEN \E r \in existingVolunteer : AuthSignedIn(c, r.id, name)
     ELSE /\ authCall' = [authCall EXCEPT ![c].pc = "insert"]
          /\ UNCHANGED <<volunteerId, showAuthModal, pendingTaskId, error, call,
                         localStorage, returnedNoTask>>
  /\ UNCHANGED <<storeVars, tasks, reads, lastIssued, bcInbox, syncVars, volunteers,
                 layoutVars, restVars>>

\* Whether the Store takes the row handleAuth inserts.
NameFree(rows, name) == unique_volunteer_name_per_event(rows, name)

\* The insert returns: the new volunteer signs in, or the Store's error is shown.
AuthInsertResponse(c) ==
  /\ authCall[c].pc = "insert"
  /\ LET name == authCall[c].name IN
     IF NameFree(volunteers, name)
     THEN \E id \in FreshVolunteerIds(volunteers) :
            /\ volunteers' = volunteers \cup {[id |-> id, name |-> name]}
            /\ AuthSignedIn(c, id, name)
     ELSE /\ error' = [error EXCEPT ![c] = StoreError("unique_name")]
          /\ authCall' = [authCall EXCEPT ![c] = AuthIdle]
          /\ UNCHANGED <<volunteers, volunteerId, showAuthModal, pendingTaskId, call,
                         localStorage, returnedNoTask>>
  /\ UNCHANGED <<storeVars, tasks, reads, lastIssued, bcInbox, syncVars, layoutVars,
                 restVars>>

\* ---------------------------------------------------------------- sync controller

Cap(x, m) == IF x > m THEN m ELSE x

\* refreshTasks, request side: the Store answers with the rows it holds now;
\* the response reaches the client later (ReadDeliver).
IssueRead(c, cont, rows) ==
  /\ reads' = [reads EXCEPT ![c] = Append(@, [data |-> rows, cont |-> cont, age |-> 0])]
  /\ lastIssued' = [lastIssued EXCEPT ![c] = rows]

RemoveAt(s, i) == SubSeq(s, 1, i - 1) \o SubSeq(s, i + 1, Len(s))

CanRead(c) == Len(reads[c]) < MaxInFlight

\* What the poll callback writes to lastRealtimeRef once its awaits return:
\* Date.now(), so the quiet age restarts.
PollStamp(age) == 0

\* A read's response arrives, in any order of the reads in flight: setTasks(data).
\* The poll callback then resumes after its awaits.
ReadDeliver(i) ==
  LET c == SyncClient
      r == reads[c][i] IN
  /\ reads' = [reads EXCEPT ![c] = RemoveAt(@, i)]
  /\ tasks' = [tasks EXCEPT ![c] = ApplyRead(@, r.data)]
  /\ quietAge' = IF r.cont = "poll" THEN PollStamp(quietAge) ELSE quietAge
  /\ UNCHANGED <<sessionVars, storeVars, volunteerId, error, showAuthModal, pendingTaskId, call,
                 lastIssued, bcInbox, refreshAge, pendingRefresh, pollRef, watcher,
                 feedUp, feedBroad, feedFiltered, feedSeen, mutAge, mutPolling,
                 timeouts, feedTasks>>

ReadDeliverAny == \E i \in 1..Len(reads[SyncClient]) : ReadDeliver(i)

\* bcRef.current.onmessage, with the read it starts left in flight.
BcMessageSync ==
  /\ bcInbox[SyncClient]
  /\ CanRead(SyncClient)
  /\ bcInbox' = [bcInbox EXCEPT ![SyncClient] = FALSE]
  /\ IssueRead(SyncClient, "none", task_assignments)
  /\ UNCHANGED <<sessionVars, storeVars, volunteerId, tasks, error, showAuthModal, pendingTaskId,
                 call, syncVars>>

\* A clearTimeout that disarms nothing.
keepTimeout(ts, ref) == ts

\* clearTimeout(pendingRefreshRef.current): the timer the ref holds, if any, is
\* disarmed; the ref holds it by its time left.
clearTimeout(ts, ref) ==
  IF ref >= 0 /\ \E i \in 1..Len(ts) : ts[i] = ref
  THEN RemoveAt(ts, CHOOSE i \in 1..Len(ts) : ts[i] = ref)
  ELSE ts

\* A throttle that never waits.
CooldownPassedAlways(timeSinceLastRefresh) == TRUE

\* Whether throttledRefresh refreshes at once (the cooldown has passed).
CooldownPassed(timeSinceLastRefresh) == timeSinceLastRefresh >= COOLDOWN

\* throttledRefresh: clear the pending timeout, then refresh now or arm one
\* timeout for the rest of the cooldown.
throttledRefresh ==
  LET cleared == clearTimeout(timeouts, pendingRefresh) IN
  IF CooldownPassed(refreshAge)
  THEN /\ CanRead(SyncClient)
       /\ refreshAge' = 0
       /\ pendingRefresh' = -1
       /\ timeouts' = cleared
       /\ IssueRead(SyncClient, "throttle", task_assignments)
  ELSE /\ pendingRefresh' = COOLDOWN - refreshAge
       /\ timeouts' = Append(cleared, COOLDOWN - refreshAge)
       /\ UNCHANGED <<refreshAge, reads, lastIssued>>

\* The timeout armed by throttledRefresh fires.
PendingRefreshFire ==
  /\ \E i \in 1..Len(timeouts) : timeouts[i] = 0
  /\ CanRead(SyncClient)
  /\ timeouts' = RemoveAt(timeouts, CHOOSE i \in 1..Len(timeouts) : timeouts[i] = 0)
  /\ refreshAge' = 0
  /\ pendingRefresh' = -1
  /\ IssueRead(SyncClient, "throttle", task_assignments)
  /\ UNCHANGED <<sessionVars, storeVars, volunteerId, tasks, error, showAuthModal,
                 pendingTaskId, call, bcInbox, quietAge, pollRef, watcher, feedUp,
                 feedBroad, feedFiltered, feedSeen, mutAge, mutPolling, feedTasks>>

\* A handler that leaves lastRealtimeRef alone.
SignalStampNone(age) == age

\* lastRealtimeRef.current = Date.now() in a subscription handler: the quiet
\* age restarts.
SignalStamp(age) == 0

\* The task_assignments subscription handler (every displayed task is in tasksRef).
BroadHandler ==
  /\ feedBroad
  /\ feedBroad' = FALSE
  /\ quietAge' = SignalStamp(quietAge)
  /\ feedSeen' = TRUE
  /\ throttledRefresh
  /\ PostRefresh(SyncClient)
  /\ UNCHANGED <<sessionVars, storeVars, volunteerId, tasks, error, showAuthModal,
                 pendingTaskId, call, pollRef, watcher, feedUp, feedFiltered, mutAge,
                 mutPolling, feedTasks>>

\* The tasks subscription handler.
TasksHandler ==
  /\ feedTasks
  /\ feedTasks' = FALSE
  /\ quietAge' = SignalStamp(quietAge)
  /\ feedSeen' = TRUE
  /\ throttledRefresh
  /\ PostRefresh(SyncClient)
  /\ UNCHANGED <<sessionVars, storeVars, volunteerId, tasks, error, showAuthModal,
                 pendingTaskId, call, pollRef, watcher, feedUp, feedBroad, feedFiltered,
                 mutAge, mutPolling>>

\* The filtered task_assignments subscription handler.
FilteredHandler ==
  /\ feedFiltered
  /\ CanRead(SyncClient)
  /\ feedFiltered' = FALSE
  /\ quietAge' = SignalStamp(quietAge)
  /\ feedSeen' = TRUE
  /\ IssueRead(SyncClient, "none", task_assignments)
  /\ PostRefresh(SyncClient)
  /\ UNCHANGED <<sessionVars, storeVars, volunteerId, tasks, error, showAuthModal, pendingTaskId,
                 call, refreshAge, pendingRefresh, pollRef, watcher, feedUp, feedBroad,
                 mutAge, mutPolling, timeouts, feedTasks>>

\* The poll interval fires: await refreshTasks(), then stamp lastRealtimeRef.
PollFire ==
  /\ pollRef = 0
  /\ CanRead(SyncClient)
  /\ pollRef' = POLL_INTERVAL
  /\ IssueRead(SyncClient, "poll", task_assignments)
  /\ UNCHANGED <<sessionVars, storeVars, volunteerId, tasks, error, showAuthModal, pendingTaskId,
                 call, bcInbox, quietAge, refreshAge, pendingRefresh, watcher, feedUp,
                 feedBroad, feedFiltered, feedSeen, mutAge, mutPolling, timeouts,
                 feedTasks>>

\* A watcher that never finds the feed quiet.
IsQuietNever(age) == FALSE

\* Whether the watcher finds the feed quiet.
IsQuiet(age) == age > QUIET_THRESHOLD

\* startPoll arms the interval unless it is armed.
startPoll ==
  IF pollRef = -1
  THEN pollRef' = POLL_INTERVAL /\ feedSeen' = FALSE
  ELSE UNCHANGED <<pollRef, feedSeen>>

stopPoll == pollRef' = -1 /\ UNCHANGED feedSeen

\* The watcher interval fires.
WatcherFire ==
  /\ watcher = 0
  /\ watcher' = WATCH_INTERVAL
  /\ IF IsQuiet(quietAge) THEN startPoll ELSE stopPoll
  /\ UNCHANGED <<sessionVars, storeVars, clientVars, quietAge, refreshAge,
                 pendingRefresh, feedUp, feedBroad, feedFiltered, mutAge, mutPolling,
                 timeouts, feedTasks>>

Dec(t) == IF t > 0 THEN t - 1 ELSE t

\* The reads in flight, one second older.
Older(s) ==
  IF s = <<>> THEN <<>> ELSE [i \in 1..Len(s) |-> [s[i] EXCEPT !.age = @ + 1]]

\* The armed timeouts, one second closer.
Sooner(ts) ==
  IF ts = <<>> THEN <<>> ELSE [i \in 1..Len(ts) |-> Dec(ts[i])]

\* One second passes: no timer is due, signals and messages have been handled,
\* and no read has been in flight for MaxLatency.
Tick ==
  /\ pendingRefresh # 0 /\ pollRef # 0 /\ watcher # 0
  /\ \A i \in 1..Len(timeouts) : timeouts[i] # 0
  /\ ~feedBroad /\ ~feedFiltered /\ ~feedTasks /\ ~bcInbox[SyncClient]
  /\ \A i \in 1..Len(reads[SyncClient]) : reads[SyncClient][i].age < MaxLatency
  /\ quietAge' = Cap(quietAge + 1, QUIET_THRESHOLD + 1)
  /\ refreshAge' = Cap(refreshAge + 1, COOLDOWN)
  /\ pendingRefresh' = Dec(pendingRefresh)
  /\ timeouts' = Sooner(timeouts)
  /\ pollRef' = Dec(pollRef)
  /\ watcher' = Dec(watcher)
  /\ mutAge' = Cap(mutAge + 1, POLL_INTERVAL + MaxLatency + 1)
  /\ reads' = [reads EXCEPT ![SyncClient] = Older(@)]
  /\ UNCHANGED <<sessionVars, storeVars, volunteerId, tasks, error, showAuthModal, pendingTaskId,
                 call, lastIssued, bcInbox, feedUp, feedBroad, feedFiltered, feedSeen,
                 mutPolling, feedTasks>>

\* Another client's insert or delete is taken by the Store; the change feed,
\* when up, signals both subscriptions, and a sibling tab may post 'refresh'.
EnvMutate(rows, posts) ==
  /\ ~feedBroad /\ ~feedFiltered /\ ~feedTasks /\ ~bcInbox[SyncClient]
  /\ task_assignments' = rows
  /\ nextId' = IF rows \subseteq task_assignments THEN nextId ELSE nextId + 1
  /\ feedBroad' = feedUp
  /\ feedFiltered' = feedUp
  /\ bcInbox' = [bcInbox EXCEPT ![SyncClient] = posts]
  /\ mutAge' = 0
  /\ mutPolling' = (~feedUp /\ pollRef >= 0 /\ ~feedSeen)
  /\ UNCHANGED <<sessionVars, volunteerId, tasks, error, showAuthModal, pendingTaskId, call, reads,
                 lastIssued, quietAge, refreshAge, pendingRefresh, pollRef, watcher,
                 feedUp, feedSeen, timeouts, feedTasks>>

EnvInsert ==
  \E t \in EnvTasks, v \in EnvVolunteers, posts \in BOOLEAN :
    /\ nextId <= MaxIds
    /\ InsertAccepted(task_assignments, t, v)
    /\ EnvMutate(task_assignments \cup
                   {[id |-> nextId, task_id |-> t, volunteer_id |-> v]}, posts)

EnvDelete ==
  \E a \in task_assignments, posts \in BOOLEAN :
    EnvMutate(task_assignments \ {a}, posts)

\* The organiser saves an edit of a task (a field the snapshot rows do not
\* hold): the change feed signals the tasks subscription.  At most one edit is
\* saved while the throttle is open.
EnvTaskEdit ==
  /\ feedUp
  /\ ~feedBroad /\ ~feedFiltered /\ ~feedTasks /\ ~bcInbox[SyncClient]
  /\ refreshAge >= COOLDOWN
  /\ feedTasks' = TRUE
  /\ UNCHANGED <<sessionVars, storeVars, clientVars, quietAge, refreshAge,
                 pendingRefresh, pollRef, watcher, feedUp, feedBroad, feedFiltered,
                 feedSeen, mutAge, mutPolling, timeouts>>

\* The realtime transport drops or comes back.
FeedToggle ==
  /\ feedUp' = ~feedUp
  /\ UNCHANGED <<sessionVars, storeVars, clientVars, quietAge, refreshAge,
                 pendingRefresh, pollRef, watcher, feedBroad, feedFiltered, feedSeen,
                 mutAge, mutPolling, timeouts, feedTasks>>

\* ---------------------------------------------------------------- day layout

\* Instants are integers (milliseconds in the code); a day has DayTicks of them.
Days == {0, 1}
MaxTime == DayTicks + 1
\* Task names, in the order in which a list first uses them (the layout does
\* not depend on what a name is, only on which tasks share one).
TaskNames == <<"a", "b", "c">>

\* The rows of tasks: valid_datetime_range makes end_datetime > start_datetime.
\* Here every task has one type, needs one volunteer and has no assignment.
TaskRows ==
  {r \in [name : {TaskNames[i] : i \in 1..Len(TaskNames)},
           start : 0..MaxTime, end : 0..MaxTime,
           task_type_id : {"ty1"}, volunteers_required : {1},
           task_assignments : {{}}] : r.end > r.start}

\* The names a list may give its next task: one in use, or the first unused.
NextNames(l) ==
  LET used == {l[i].name : i \in 1..Len(l)} IN
  used \cup {TaskNames[i] : i \in {Cardinality(used) + 1} \cap 1..Len(TaskNames)}

\* refreshTasks and the pages order the list by start_datetime.
OrderedByStart(l) == \A i \in 1..Len(l) - 1 : l[i].start <= l[i + 1].start

\* dayStart.setHours(0, 0, 0, 0)
dayStart(d) == d * DayTicks

\* dayEnd.setHours(23, 59, 59, 999): the last instant of the day
dayEnd(d) == d * DayTicks + DayTicks - 1

\* The filter of getDayItems: the tasks taken as intersecting the day.
IntersectsDay(t, d) == t.start <= dayEnd(d) /\ t.end >= dayStart(d)

\* dayTasks, as the indices of the tasks kept, in the list's order.
dayTasks(l, d) == {i \in 1..Len(l) : IntersectsDay(l[i], d)}

\* groupKey: the task's name.
groupKey(t) == t.name

\* The keys of the groups Map in insertion order: by first task of each key.
RECURSIVE groupKeys(_, _, _)
groupKeys(l, d, i) ==
  IF i > Len(l) THEN <<>>
  ELSE LET rest == groupKeys(l, d, i + 1)
           k == groupKey(l[i]) IN
       IF i \in dayTasks(l, d)
          /\ ~\E j \in dayTasks(l, d) : j < i /\ groupKey(l[j]) = k
       THEN <<k>> \o rest
       ELSE rest

Min(S) == CHOOSE x \in S : \A y \in S : x <= y
Max(S) == CHOOSE x \in S : \A y \in S : x >= y

\* groupTasks.reduce((s, t) => s + f(t), 0), f given as a function on indices.
RECURSIVE reduce(_, _)
reduce(f, S) ==
  IF S = {} THEN 0
  ELSE LET i == CHOOSE i \in S : TRUE IN f[i] + reduce(f, S \ {i})

\* The item of one group: the merged span of its tasks, clipped to the day.
DayItem(l, d, key) ==
  LET groupTasks == {i \in dayTasks(l, d) : groupKey(l[i]) = key}
      start == Min({l[i].start : i \in groupTasks})
      end == Max({l[i].end : i \in groupTasks})
      clippedStart == IF start < dayStart(d) THEN dayStart(d) ELSE start
      volunteers_required ==
        reduce([i \in groupTasks |-> l[i].volunteers_required], groupTasks)
      assignment_count ==
        reduce([i \in groupTasks |-> Cardinality(l[i].task_assignments)], groupTasks)
      clippedEnd == IF end > dayEnd(d) THEN dayEnd(d) ELSE end IN
  [id |-> key, start |-> clippedStart, end |-> clippedEnd, tasks |-> groupTasks,
   volunteers_required |-> volunteers_required, assignment_count |-> assignment_count]

items(l, d) ==
  LET keys == groupKeys(l, d, 1) IN
  [i \in 1..Len(keys) |-> DayItem(l, d, keys[i])]

\* items.sort((a, b) => a.start - b.start): a stable sort.
RECURSIVE SortByStart(_)
SortByStart(its) ==
  IF Len(its) <= 1 THEN its
  ELSE LET n == Len(its)
           head == SortByStart(SubSeq(its, 1, n - 1))
           x == its[n]
           k == Cardinality({i \in 1..Len(head) : head[i].start <= x.start}) IN
       SubSeq(head, 1, k) \o <<x>> \o SubSeq(head, k + 1, Len(head))

\* A column that takes every item.
ColumnFreeAlways(columnEnd, s) == TRUE

\* columns[ci] <= s: the column's last item has ended when this one starts.
ColumnFree(columnEnd, s) == columnEnd <= s

\* The forEach over the sorted items: each goes to the first free column, or to
\* a new one.  Result: the items with _col, and the columns' end times.
RECURSIVE AssignColumns(_, _, _, _)
AssignColumns(its, i, columns, acc) ==
  IF i > Len(its) THEN [positioned |-> acc, columns |-> columns]
  ELSE LET item == its[i]
           free == {ci \in 1..Len(columns) : ColumnFree(columns[ci], item.start)} IN
       IF free # {}
       THEN LET ci == Min(free) IN
            AssignColumns(its, i + 1, [columns EXCEPT ![ci] = item.end],
                          Append(acc, [item EXCEPT !._col = ci - 1]))
       ELSE AssignColumns(its, i + 1, Append(columns, item.end),
                          Append(acc, [item EXCEPT !._col = Len(columns)]))

\* getDayItems(day) on the task list l.
getDayItems(l, d) ==
  LET its == items(l, d)
      blank == [i \in 1..Len(its) |->
                 [id |-> its[i].id, start |-> its[i].start, end |-> its[i].end,
                  tasks |-> its[i].tasks,
                  volunteers_required |-> its[i].volunteers_required,
                  assignment_count |-> its[i].assignment_count,
                  _col |-> 0, _cols |-> 0]]
      r == AssignColumns(SortByStart(blank), 1, <<>>, <<>>) IN
  [i \in 1..Len(r.positioned) |->
     [r.positioned[i] EXCEPT !._cols = Len(r.columns)]]

\* The list the calendar is given grows by one task, in start order.
AddTask(r) ==
  /\ ~laidOut
  /\ Len(filteredTasks) < MaxTasks
  /\ r.name \in NextNames(filteredTasks)
  /\ OrderedByStart(Append(filteredTasks, r))
  /\ filteredTasks' = Append(filteredTasks, r)
  /\ UNCHANGED <<day, positioned, laidOut>>
  /\ UNCHANGED <<storeVars, clientVars, syncVars, localStorage, returnedNoTask, authVars,
                 restVars>>

\* The calendar renders one day of a task list.
RenderDay ==
  /\ ~laidOut
  /\ positioned' = getDayItems(filteredTasks, day)
  /\ laidOut' = TRUE
  /\ UNCHANGED <<day, filteredTasks>>
  /\ UNCHANGED <<storeVars, clientVars, syncVars, localStorage, returnedNoTask, authVars,
                 restVars>>

\* ---------------------------------------------------------------- filters

MaxListed == 2
TaskTypes == {"ty1", "ty2"}

\* The rows of the snapshot's tasks: id, type, volunteers_required (positive) and
\* the volunteers of the task's assignments.  Only v1 takes tasks here.
ListRows ==
  {r \in [id : 1..MaxListed, name : {TaskNames[i] : i \in 1..Len(TaskNames)},
           start : 0..MaxTime, end : 0..MaxTime,
           task_type_id : TaskTypes, volunteers_required : 1..2,
           task_assignments : SUBSET {"v1"}] : r.end > r.start}


\* The callback of tasks.filter: the task passes the type and volunteer filters.
Keeps(task, type, vol, me) ==
  IF type # "all" /\ task.task_type_id # type THEN FALSE
  ELSE IF vol = "unassigned"
       THEN Cardinality(task.task_assignments) < task.volunteers_required
  ELSE IF vol = "mine" /\ me # Null THEN me \in task.task_assignments
  ELSE TRUE

\* tasks.filter(...): the tasks kept, in the list's order.
RECURSIVE Filter(_, _, _, _)
Filter(l, type, vol, me) ==
  IF l = <<>> THEN <<>>
  ELSE LET rest == Filter(Tail(l), type, vol, me) IN
       IF Keeps(Head(l), type, vol, me) THEN <<Head(l)>> \o rest ELSE rest

\* The snapshot gains a task, in start order (refreshTasks orders by start).
ListTask(r) ==
  /\ ~laidOut
  /\ Len(taskList) < MaxListed
  /\ r.id = Len(taskList) + 1
  /\ r.name \in NextNames(taskList)
  /\ OrderedByStart(Append(taskList, r))
  /\ taskList' = Append(taskList, r)
  /\ UNCHANGED <<filterTaskType, filterVolunteer, layoutVars>>
  /\ UNCHANGED <<storeVars, clientVars, syncVars, localStorage, returnedNoTask, authVars,
                 tabsVars, viewVars, cursorVars, refreshVars>>

\* A render of client c: filteredTasks, then getDayItems(day) on it.
RenderFiltered(c) ==
  /\ ~laidOut
  /\ filteredTasks' = Filter(taskList, filterTaskType, filterVolunteer, volunteerId[c])
  /\ positioned' = getDayItems(filteredTasks', day)
  /\ laidOut' = TRUE
  /\ UNCHANGED <<day, filterVars>>
  /\ UNCHANGED <<storeVars, clientVars, syncVars, localStorage, returnedNoTask, authVars,
                 tabsVars, viewVars, cursorVars, refreshVars>>

\* ---------------------------------------------------------------- cursors

\* 80 ms, in steps of 40 ms.
THROTTLE == 2
\* PRUNE_MS = 6_000, in ticks of one second.
PRUNE_MS == 6
\* setInterval(..., 2000), in ticks of one second.
PRUNE_INTERVAL == 2
\* Ages of cursor entries are counted up to MaxCursorAge ticks.
MaxCursorAge == 9

\* The positions a pointer event may give (leftPct, topPct in 0..100).
CursorPoints == {[leftPct |-> 25, topPct |-> 40], [leftPct |-> 75, topPct |-> 60]}

\* handleIncoming(payload) as the updater of setCursors: the sender's entry is
\* replaced; leftPct and topPct that are not numbers become 0.  lastSeen is the
\* payload's Date.now(): age 0.  A payload is [volunteerId, coords], coords
\* being <<point>>, or <<>> when it has no leftPct and topPct.
handleIncoming(prev, p) ==
  IF p.volunteerId = Null THEN prev
  ELSE [v \in DOMAIN prev \cup {p.volunteerId} |->
          IF v = p.volunteerId
          THEN [leftPct |-> IF p.coords = <<>> THEN 0 ELSE p.coords[1].leftPct,
                topPct |-> IF p.coords = <<>> THEN 0 ELSE p.coords[1].topPct,
                age |-> 0]
          ELSE prev[v]]

\* The updater of the prune sweep: the entries with lastSeen + PRUNE_MS > now.
Prune(prev) ==
  LET keep == {k \in DOMAIN prev : prev[k].age < PRUNE_MS} IN
  [k \in keep |-> prev[k]]

\* The check of throttledSend: now - lastCursorSentRef.current < 80.
Throttled(c) == lastCursorSentRef[c] < THROTTLE

\* A cursor broadcast by client c, for the history variables.
Broadcast(c) ==
  /\ closeBroadcast' = (closeBroadcast \/ sinceBroadcast[c] < THROTTLE)
  /\ sinceBroadcast' = [sinceBroadcast EXCEPT ![c] = 0]

\* throttledSend(ev) at client c for a pointer or touch event at point pt: the
\* payload goes to the other clients' handleIncoming over the channels and to
\* the client's own.
throttledSend(c, pt) ==
  /\ volunteerId[c] # Null
  /\ IF Throttled(c)
     THEN UNCHANGED cursorVars
     ELSE LET payload == [volunteerId |-> volunteerId[c], coords |-> <<pt>>] IN
          /\ lastCursorSentRef' = [lastCursorSentRef EXCEPT ![c] = 0]
          /\ lastLocalCursorRef' = [lastLocalCursorRef EXCEPT ![c] = <<pt>>]
          /\ cursors' = [d \in Clients |-> handleIncoming(cursors[d], payload)]
          /\ Broadcast(c)
          /\ UNCHANGED pruneInterval
  /\ UNCHANGED notCursor

\* handlePointerLeave at client c: its own entry's lastSeen becomes now; the
\* payload carries leftPct and topPct only if lastLocalCursorRef is set.
handlePointerLeave(c) ==
  /\ volunteerId[c] # Null
  /\ LET me == volunteerId[c]
         last == lastLocalCursorRef[c]
         payload == [volunteerId |-> me, coords |-> last] IN
     cursors' = [d \in Clients |->
                   IF d = c
                   THEN IF me \in DOMAIN cursors[c]
                        THEN [cursors[c] EXCEPT ![me].age = 0]
                        ELSE cursors[c]
                   ELSE handleIncoming(cursors[d], payload)]
  /\ Broadcast(c)
  /\ UNCHANGED <<lastCursorSentRef, lastLocalCursorRef, pruneInterval>>
  /\ UNCHANGED notCursor

\* The callback of pruneInterval at client c.
PruneSweep(c) ==
  /\ pruneInterval[c] = 0
  /\ cursors' = [cursors EXCEPT ![c] = Prune(cursors[c])]
  /\ pruneInterval' = [pruneInterval EXCEPT ![c] = PRUNE_INTERVAL]
  /\ UNCHANGED <<lastCursorSentRef, lastLocalCursorRef, sinceBroadcast, closeBroadcast>>
  /\ UNCHANGED notCursor

\* The cursor effect runs again at client c (its cleanup, then its body): a
\* keystroke in the sign-in name field changes volunteerName, a dependency.
\* clearInterval(pruneInterval), then a new interval; the refs and cursors stay.
CursorEffectRerun(c) ==
  /\ volunteerId[c] = Null
  /\ pruneInterval' = [pruneInterval EXCEPT ![c] = PRUNE_INTERVAL]
  /\ UNCHANGED <<cursors, lastCursorSentRef, lastLocalCursorRef, sinceBroadcast,
                 closeBroadcast>>
  /\ UNCHANGED notCursor

\* The page of client c is loaded again: state and refs start over, the
\* volunteer comes back from localStorage.
CursorReload(c) ==
  /\ cursors' = [cursors EXCEPT ![c] = <<>>]
  /\ lastCursorSentRef' = [lastCursorSentRef EXCEPT ![c] = THROTTLE]
  /\ lastLocalCursorRef' = [lastLocalCursorRef EXCEPT ![c] = <<>>]
  /\ pruneInterval' = [pruneInterval EXCEPT ![c] = PRUNE_INTERVAL]
  /\ sinceBroadcast' = [sinceBroadcast EXCEPT ![c] = THROTTLE]
  /\ UNCHANGED closeBroadcast
  /\ UNCHANGED notCursor

\* 40 ms pass.
CursorStep ==
  /\ \E c \in Clients : lastCursorSentRef[c] < THROTTLE \/ sinceBroadcast[c] < THROTTLE
  /\ lastCursorSentRef' =
       [c \in Clients |-> IF lastCursorSentRef[c] < THROTTLE
                          THEN lastCursorSentRef[c] + 1 ELSE THROTTLE]
  /\ sinceBroadcast' =
       [c \in Clients |-> IF sinceBroadcast[c] < THROTTLE
                          THEN sinceBroadcast[c] + 1 ELSE THROTTLE]
  /\ UNCHANGED <<cursors, lastLocalCursorRef, pruneInterval, closeBroadcast>>
  /\ UNCHANGED notCursor

\* One second passes: no interval is due.
CursorTick ==
  /\ \A c \in Clients : pruneInterval[c] > 0
  /\ pruneInterval' = [c \in Clients |-> pruneInterval[c] - 1]
  /\ cursors' = [c \in Clients |->
                   [k \in DOMAIN cursors[c] |->
                      [cursors[c][k] EXCEPT
                         !.age = IF @ < MaxCursorAge THEN @ + 1 ELSE MaxCursorAge]]]
  /\ lastCursorSentRef' = [c \in Clients |-> THROTTLE]
  /\ sinceBroadcast' = [c \in Clients |-> THROTTLE]
  /\ UNCHANGED <<lastLocalCursorRef, closeBroadcast>>
  /\ UNCHANGED notCursor

\* ---------------------------------------------------------------- failing reads

\* What a select of the Store answers: { data, error }, data being <<rows>>, or
\* <<>> when it is null.  A refused or failed request has an error and no data.
ReadKinds == {"ok", "error", "nodata"}

ReadResult(kind, rows) ==
  [error |-> kind = "error", data |-> IF kind = "ok" THEN <<rows>> ELSE <<>>]

\* A refresh that empties the snapshot when the read gives nothing.
setTasksOrEmpty(prev, res) == IF res.data # <<>> THEN res.data[1] ELSE {}

\* if (!error && data) setTasks(data)
setTasksIfData(prev, res) ==
  IF ~res.error /\ res.data # <<>> THEN res.data[1] ELSE prev

\* if (data) setVolunteers(data)
setVolunteersIfData(prev, res) == IF res.data # <<>> THEN res.data[1] ELSE prev

\* What the refresh actions never touch.
notRefresh == <<storeVars, volunteerId, showAuthModal, pendingTaskId, call, reads,
                lastIssued, bcInbox, syncVars, localStorage, returnedNoTask, authVars,
                layoutVars, tabsVars, viewVars, filterVars, cursorVars>>

\* refreshTasks() of client c, its read ending as kind says.
RefreshTasksRead(c, kind) ==
  /\ tasks' = [tasks EXCEPT
                 ![c] = setTasksIfData(@, ReadResult(kind, task_assignments))]
  /\ lastRead' = [lastRead EXCEPT ![c] = kind]
  /\ UNCHANGED <<error, volunteerList>>
  /\ UNCHANGED notRefresh

\* refreshVolunteers() of client c, its read ending as kind says, or throwing:
\* the catch ignores it.
RefreshVolunteersRead(c, kind, throws) ==
  /\ throws => kind = "error"
  /\ volunteerList' =
       [volunteerList EXCEPT
          ![c] = IF throws THEN @
                 ELSE setVolunteersIfData(@, ReadResult(kind, volunteers))]
  /\ lastRead' = [lastRead EXCEPT ![c] = kind]
  /\ UNCHANGED <<error, tasks>>
  /\ UNCHANGED notRefresh

\* Some client's assignment is inserted in the Store.
StoreInsert(t, v) ==
  /\ nextId <= MaxIds
  /\ InsertAccepted(task_assignments, t, v)
  /\ task_assignments' =
       task_assignments \cup {[id |-> nextId, task_id |-> t, volunteer_id |-> v]}
  /\ nextId' = nextId + 1
  /\ UNCHANGED <<clientVars, syncVars, localStorage, returnedNoTask, otherVars>>

\* An assignment is deleted from the Store.
StoreDelete(a) ==
  /\ a \in task_assignments
  /\ task_assignments' = task_assignments \ {a}
  /\ UNCHANGED <<nextId, clientVars, syncVars, localStorage, returnedNoTask, otherVars>>

\* The organiser removes a volunteer that holds no assignment.
StoreVolunteerGone(r) ==
  /\ r \in volunteers
  /\ ~\E a \in task_assignments : a.volunteer_id = r.id
  /\ volunteers' = volunteers \ {r}
  /\ UNCHANGED authCall
  /\ UNCHANGED <<storeVars, clientVars, syncVars, localStorage, returnedNoTask,
                 layoutVars, restVars>>

\* ---------------------------------------------------------------- tabs

MaxChanges == 2

\* postMessage('refresh') by tab c: one call, queued at every other tab.
Post(q, c) == [d \in Clients |-> IF d = c THEN q[d] ELSE q[d] + 1]

\* A tab's assign or unassign is taken by the Store: the handler posts
\* 'refresh', and the change feed signals both task_assignments
\* subscriptions of every tab.
TabMutation(c) ==
  /\ changes < MaxChanges
  /\ changes' = changes + 1
  /\ broadQueue' = [d \in Clients |-> broadQueue[d] + 1]
  /\ filteredQueue' = [d \in Clients |-> filteredQueue[d] + 1]
  /\ bcQueue' = Post(bcQueue, c)
  /\ posted' = posted + 1
  /\ UNCHANGED <<storeVars, clientVars, syncVars, localStorage, returnedNoTask,
                 authVars, layoutVars, viewVars, moreVars>>

\* The task_assignments subscription handler of tab c: refresh and post.
TabBroadHandler(c) ==
  /\ broadQueue[c] > 0
  /\ broadQueue' = [broadQueue EXCEPT ![c] = @ - 1]
  /\ bcQueue' = Post(bcQueue, c)
  /\ posted' = posted + 1
  /\ UNCHANGED <<changes, filteredQueue>>
  /\ UNCHANGED <<storeVars, clientVars, syncVars, localStorage, returnedNoTask,
                 authVars, layoutVars, viewVars, moreVars>>

\* The filtered subscription handler of tab c: refresh and post.
TabFilteredHandler(c) ==
  /\ filteredQueue[c] > 0
  /\ filteredQueue' = [filteredQueue EXCEPT ![c] = @ - 1]
  /\ bcQueue' = Post(bcQueue, c)
  /\ posted' = posted + 1
  /\ UNCHANGED <<changes, broadQueue>>
  /\ UNCHANGED <<storeVars, clientVars, syncVars, localStorage, returnedNoTask,
                 authVars, layoutVars, viewVars, moreVars>>

\* An onmessage that passes the 'refresh' on.
onmessageReposts(c) == 1

\* The postMessage calls of bcRef.current.onmessage: it only calls
\* refreshTasks and refreshVolunteers.
onmessagePosts(c) == 0

\* bcRef.current.onmessage of tab c takes one 'refresh'.
TabBcMessage(c) ==
  /\ bcQueue[c] > 0
  /\ LET taken == [bcQueue EXCEPT ![c] = @ - 1] IN
     bcQueue' = IF onmessagePosts(c) > 0 THEN Post(taken, c) ELSE taken
  /\ posted' = posted + onmessagePosts(c)
  /\ UNCHANGED <<changes, broadQueue, filteredQueue>>
  /\ UNCHANGED <<storeVars, clientVars, syncVars, localStorage, returnedNoTask,
                 authVars, layoutVars, viewVars, moreVars>>

\* ---------------------------------------------------------------- view life cycle

MaxChannels == 8
MaxRemovals == 2
Events == {"e1", "e2"}
ViewTaskIds == {"t1", "t2"}
Kinds == {"broad", "tasks", "filtered", "cursor"}
Timers == {"poll", "watcher", "prune", "debounce"}

\* The refs and channels as one value, for the effects to transform.
View == [channels |-> channels, ref |-> channelRef, removals |-> removals,
         next |-> nextChannel]

\* A removeChannel that leaves the channel subscribed.
keepChannel(chs, id) == chs

\* supabase.removeChannel(channel)
removeChannel(chs, id) == {ch \in chs : ch.id # id}

\* if (ref.current) { supabase.removeChannel(ref.current); ref.current = null }
Remove(st, k) ==
  IF st.ref[k] # 0
  THEN [st EXCEPT !.channels = removeChannel(@, st.ref[k]),
                  !.removals[st.ref[k]] = @ + 1,
                  !.ref[k] = 0]
  ELSE st

\* The cursor effect's cleanup: if (cursorChannelRef.current)
\* supabase.removeChannel(cursorChannelRef.current); the ref keeps the channel.
RemoveCursor(st) ==
  IF st.ref["cursor"] # 0
  THEN [st EXCEPT !.channels = removeChannel(@, st.ref["cursor"]),
                  !.removals[st.ref["cursor"]] = @ + 1]
  ELSE st

\* ref.current = supabase.channel(...).on(...).subscribe()
Subscribe(st, k, filter, e) ==
  [st EXCEPT !.channels = @ \cup {[id |-> st.next, kind |-> k, filter |-> filter,
                                   event |-> e]},
             !.ref[k] = st.next,
             !.next = @ + 1]

\* setup() of the task_assignments and tasks subscription effects.
Setup(st, k, e) == IF st.ref[k] # 0 THEN st ELSE Subscribe(st, k, {}, e)

\* The filtered subscription effect: the previous channel is removed, and a
\* channel filtered by the ids is subscribed unless there is no id.
FilteredEffect(st, ids, e) ==
  LET a == Remove(st, "filtered") IN
  IF ids = {} THEN a ELSE Subscribe(a, "filtered", ids, e)

\* The cleanup function of the effect of one kind.
Cleanup(st, k) == IF k = "cursor" THEN RemoveCursor(st) ELSE Remove(st, k)

\* The cleanups of the effects that depend on event.id, then the effects.
Rerun(st, ids, e) ==
  LET a == Cleanup(Cleanup(Cleanup(Cleanup(st, "broad"), "tasks"), "filtered"), "cursor")
      b == Setup(Setup(a, "broad", e), "tasks", e)
      c == FilteredEffect(b, ids, e) IN
  Subscribe(c, "cursor", {}, e)

\* The cleanups of all effects, at unmount.
Teardown(st) ==
  Cleanup(Cleanup(Cleanup(Cleanup(st, "broad"), "tasks"), "filtered"), "cursor")

\* The view's variables take the transformed value.
Becomes(st) ==
  /\ channels' = st.channels
  /\ channelRef' = st.ref
  /\ removals' = st.removals
  /\ nextChannel' = st.next

\* setTasks with another set of task ids: the filtered subscription effect's
\* cleanup runs, then the effect.
SetTasks(ids) ==
  /\ mounted
  /\ ids # snapshotIds
  /\ nextChannel <= MaxChannels
  /\ snapshotIds' = ids
  /\ Becomes(FilteredEffect(Cleanup(View, "filtered"), ids, eventId))
  /\ cleaned' = [cleaned EXCEPT !["filtered"] = FALSE]
  /\ UNCHANGED <<mounted, eventId, timers, staleRefresh>>
  /\ UNCHANGED <<storeVars, clientVars, syncVars, localStorage, returnedNoTask,
                 authVars, layoutVars, tabsVars, moreVars>>

\* The event prop changes: the effects that list event.id re-run.  The polling
\* effect and the pending-refresh cleanup effect list nothing and do not.
EventChange(e) ==
  /\ mounted
  /\ e # eventId
  /\ nextChannel + 3 <= MaxChannels
  /\ eventId' = e
  /\ Becomes(Rerun(View, snapshotIds, e))
  /\ timers' = [timers EXCEPT !["prune"] = e]
  /\ cleaned' = [k \in Kinds |-> FALSE]
  /\ UNCHANGED <<mounted, snapshotIds, staleRefresh>>
  /\ UNCHANGED <<storeVars, clientVars, syncVars, localStorage, returnedNoTask,
                 authVars, layoutVars, tabsVars, moreVars>>

\* The component unmounts: every effect's cleanup runs.
Unmount ==
  /\ mounted
  /\ mounted' = FALSE
  /\ Becomes(Teardown(View))
  /\ timers' = [t \in Timers |-> Null]
  /\ cleaned' = [k \in Kinds |-> TRUE]
  /\ UNCHANGED <<eventId, snapshotIds, staleRefresh>>
  /\ UNCHANGED <<storeVars, clientVars, syncVars, localStorage, returnedNoTask,
                 authVars, layoutVars, tabsVars, moreVars>>

\* A cleanup function is called once more.
CleanupAgain(k) ==
  /\ cleaned[k]
  /\ IF channelRef[k] = 0 THEN TRUE ELSE removals[channelRef[k]] < MaxRemovals
  /\ Becomes(Cleanup(View, k))
  /\ staleRefresh' = staleRefresh
  /\ UNCHANGED <<mounted, eventId, snapshotIds, timers, cleaned>>
  /\ UNCHANGED <<storeVars, clientVars, syncVars, localStorage, returnedNoTask,
                 authVars, layoutVars, tabsVars, moreVars>>

\* A timer's callback calls refreshTasks of the render that armed it.
Refreshes(e) == staleRefresh' = (staleRefresh \/ ~mounted \/ e # eventId)

\* The watcher interval fires: startPoll or stopPoll, as the feed was quiet or not.
ViewWatcher(quiet) ==
  /\ timers["watcher"] # Null
  /\ timers' = [timers EXCEPT !["poll"] =
       IF quiet THEN (IF @ = Null THEN timers["watcher"] ELSE @) ELSE Null]
  /\ timers' # timers
  /\ UNCHANGED <<mounted, eventId, snapshotIds, channels, channelRef, removals,
                 nextChannel, staleRefresh, cleaned>>
  /\ UNCHANGED <<storeVars, clientVars, syncVars, localStorage, returnedNoTask,
                 authVars, layoutVars, tabsVars, moreVars>>

\* The poll interval fires.
ViewPoll ==
  /\ timers["poll"] # Null
  /\ Refreshes(timers["poll"])
  /\ staleRefresh' # staleRefresh
  /\ UNCHANGED <<mounted, eventId, snapshotIds, channels, channelRef, removals,
                 nextChannel, timers, cleaned>>
  /\ UNCHANGED <<storeVars, clientVars, syncVars, localStorage, returnedNoTask,
                 authVars, layoutVars, tabsVars, moreVars>>

\* A handler of the task_assignments or tasks subscription calls
\* throttledRefresh inside the cooldown: the timeout is armed by the render
\* that subscribed the channel.
ViewSignal ==
  /\ \E ch \in channels :
       /\ ch.kind \in {"broad", "tasks"}
       /\ timers' = [timers EXCEPT !["debounce"] = ch.event]
  /\ timers' # timers
  /\ UNCHANGED <<mounted, eventId, snapshotIds, channels, channelRef, removals,
                 nextChannel, staleRefresh, cleaned>>
  /\ UNCHANGED <<storeVars, clientVars, syncVars, localStorage, returnedNoTask,
                 authVars, layoutVars, tabsVars, moreVars>>

\* The timeout of throttledRefresh fires.
ViewDebounce ==
  /\ timers["debounce"] # Null
  /\ Refreshes(timers["debounce"])
  /\ timers' = [timers EXCEPT !["debounce"] = Null]
  /\ UNCHANGED <<mounted, eventId, snapshotIds, channels, channelRef, removals,
                 nextChannel, cleaned>>
  /\ UNCHANGED <<storeVars, clientVars, syncVars, localStorage, returnedNoTask,
                 authVars, layoutVars, tabsVars, moreVars>>

\* The view is mounted on the first event: the effects have run once.
ViewMounted(ids) ==
  LET st0 == [channels |-> {}, ref |-> [k \in Kinds |-> 0],
              removals |-> [i \in 1..MaxChannels + 1 |-> 0], next |-> 1]
      st == Rerun(st0, ids, "e1") IN
  /\ mounted = TRUE
  /\ eventId = "e1"
  /\ snapshotIds = ids
  /\ channels = st.channels
  /\ channelRef = st.ref
  /\ removals = st.removals
  /\ nextChannel = st.next
  /\ timers = [t \in Timers |-> IF t = "debounce" THEN Null ELSE "e1"]
  /\ staleRefresh = FALSE
  /\ cleaned = [k \in Kinds |-> FALSE]

ViewInit == ViewMounted({})

\* No Store change yet, nothing queued.
TabsInit ==
  /\ changes = 0
  /\ broadQueue = [c \in Clients |-> 0]
  /\ filteredQueue = [c \in Clients |-> 0]
  /\ bcQueue = [c \in Clients |-> 0]
  /\ posted = 0

\* No task row is held, no filter is set.
FilterInit ==
  /\ taskList = <<>>
  /\ filterTaskType = "all"
  /\ filterVolunteer = "all"

\* Just mounted: no cursor is known, nothing was sent.
CursorInit ==
  /\ cursors = [c \in Clients |-> <<>>]
  /\ lastCursorSentRef = [c \in Clients |-> THROTTLE]
  /\ lastLocalCursorRef = [c \in Clients |-> <<>>]
  /\ pruneInterval = [c \in Clients |-> PRUNE_INTERVAL]
  /\ sinceBroadcast = [c \in Clients |-> THROTTLE]
  /\ closeBroadcast = FALSE

\* useState<Volunteer[]>([]): no volunteer row is held; no read has ended.
RefreshInit ==
  /\ volunteerList = [c \in Clients |-> {}]
  /\ lastRead = [c \in Clients |-> "none"]

MoreInit == FilterInit /\ CursorInit /\ RefreshInit

RestInit == TabsInit /\ ViewInit /\ MoreInit

\* ---------------------------------------------------------------- Spec

SyncInit ==
  /\ quietAge = 0 /\ refreshAge = 0 /\ pendingRefresh = -1 /\ pollRef = -1
  /\ watcher = 0 /\ feedUp = FALSE /\ feedBroad = FALSE /\ feedFiltered = FALSE
  /\ feedSeen = FALSE /\ mutAge = 0 /\ mutPolling = FALSE
  /\ timeouts = <<>> /\ feedTasks = FALSE

ClientInit ==
  /\ tasks = [c \in Clients |-> task_assignments]
  /\ error = [c \in Clients |-> NoError]
  /\ showAuthModal = [c \in Clients |-> FALSE]
  /\ pendingTaskId = [c \in Clients |-> Null]
  /\ call = [c \in Clients |-> Idle]
  /\ reads = [c \in Clients |-> <<>>]
  /\ lastIssued = [c \in Clients |-> task_assignments]
  /\ bcInbox = [c \in Clients |-> FALSE]

\* What the mount effect finds in localStorage for a view signed in as v.
Saved(v) == IF v = Null THEN NoVolunteer ELSE [id |-> v, name |-> v]

\* No sign-in is under way; every volunteer of Volunteers has its row.
AuthInit ==
  /\ volunteers = {Saved(v) : v \in Volunteers}
  /\ authCall = [c \in Clients |-> AuthIdle]

\* No day is laid out.
LayoutInit ==
  /\ day = 0
  /\ filteredTasks = <<>>
  /\ positioned = <<>>
  /\ laidOut = FALSE

Init ==
  /\ task_assignments = {}
  /\ nextId = 1
  /\ volunteerId \in [Clients -> Volunteers \cup {Null}]
  /\ localStorage \in {Saved(volunteerId[c]) : c \in Clients}
  /\ returnedNoTask = FALSE
  /\ ClientInit
  /\ SyncInit
  /\ AuthInit
  /\ LayoutInit
  /\ RestInit

Next ==
  \/ \E c \in Clients, t \in TaskIds \cup GoneTaskIds : handleAssignTask(c, t)
  \/ \E c \in Clients : AssignInsertResponse(c)
  \/ \E c \in Clients, t \in TaskIds \cup GoneTaskIds : handleUnassignTask(c, t)
  \/ \E c \in Clients, failed \in BOOLEAN : UnassignDeleteResponse(c, failed)
  \/ \E c \in Clients, name \in Volunteers : handleAuth(c, name)
  \/ \E c \in Clients : handleSignOut(c)
  \/ \E c \in Clients : SyncRefresh(c)
  \/ \E c \in Clients : BcMessage(c)

Spec == Init /\ [][Next]_vars

\* The view right after mount: lastRealtimeRef and lastRefreshRef are 0, so both
\* ages are beyond their thresholds and the initial check has started the poll.
InitSync ==
  /\ task_assignments = {}
  /\ nextId = 1
  /\ volunteerId = [c \in Clients |-> Null]
  /\ ClientInit
  /\ quietAge = QUIET_THRESHOLD + 1
  /\ refreshAge = COOLDOWN
  /\ pendingRefresh = -1
  /\ pollRef = POLL_INTERVAL
  /\ watcher = WATCH_INTERVAL
  /\ feedUp \in BOOLEAN
  /\ feedBroad = FALSE /\ feedFiltered = FALSE /\ feedSeen = FALSE
  /\ mutAge = POLL_INTERVAL + MaxLatency + 1
  /\ mutPolling = FALSE
  /\ timeouts = <<>> /\ feedTasks = FALSE
  /\ localStorage = NoVolunteer
  /\ returnedNoTask = FALSE
  /\ AuthInit
  /\ LayoutInit
  /\ RestInit

NextSync ==
  \/ Tick
  \/ WatcherFire
  \/ PollFire
  \/ PendingRefreshFire
  \/ BroadHandler
  \/ FilteredHandler
  \/ TasksHandler
  \/ BcMessageSync
  \/ ReadDeliverAny
  \/ EnvInsert
  \/ EnvDelete
  \/ EnvTaskEdit
  \/ FeedToggle

SpecSync == InitSync /\ [][NextSync]_vars

SpecSyncFair ==
  /\ SpecSync
  /\ WF_vars(Tick)
  /\ WF_vars(WatcherFire)
  /\ WF_vars(PollFire)
  /\ WF_vars(PendingRefreshFire)
  /\ WF_vars(BroadHandler)
  /\ WF_vars(FilteredHandler)
  /\ WF_vars(TasksHandler)
  /\ WF_vars(BcMessageSync)
  /\ WF_vars(ReadDeliverAny)

\* Sign-in from several tabs, no volunteer existing yet.
InitAuth ==
  /\ task_assignments = {}
  /\ nextId = 1
  /\ volunteerId = [c \in Clients |-> Null]
  /\ localStorage = NoVolunteer
  /\ returnedNoTask = FALSE
  /\ ClientInit
  /\ SyncInit
  /\ LayoutInit
  /\ RestInit
  /\ volunteers = {}
  /\ authCall = [c \in Clients |-> AuthIdle]

NextAuth ==
  \/ \E c \in Clients : OpenAuthModal(c)
  \/ \E c \in Clients, name \in AuthNames : handleAuthSubmit(c, name)
  \/ \E c \in Clients : AuthSelectResponse(c)
  \/ \E c \in Clients : AuthInsertResponse(c)
  \/ \E c \in Clients : handleSignOut(c)
  \/ \E c \in Clients, t \in TaskIds : handleAssignTask(c, t)
  \/ \E c \in Clients : AssignInsertResponse(c)

SpecAuth == InitAuth /\ [][NextAuth]_vars

\* The tabs of one browser relaying Store changes.
InitTabs ==
  /\ task_assignments = {}
  /\ nextId = 1
  /\ volunteerId = [c \in Clients |-> Null]
  /\ localStorage = NoVolunteer
  /\ returnedNoTask = FALSE
  /\ ClientInit
  /\ SyncInit
  /\ AuthInit
  /\ LayoutInit
  /\ RestInit

NextTabs ==
  \/ \E c \in Clients : TabMutation(c)
  \/ \E c \in Clients : TabBroadHandler(c)
  \/ \E c \in Clients : TabFilteredHandler(c)
  \/ \E c \in Clients : TabBcMessage(c)

SpecTabs == InitTabs /\ [][NextTabs]_vars

\* One view from mount to unmount, with any initial task list.
InitView ==
  /\ task_assignments = {}
  /\ nextId = 1
  /\ volunteerId = [c \in Clients |-> Null]
  /\ localStorage = NoVolunteer
  /\ returnedNoTask = FALSE
  /\ ClientInit
  /\ SyncInit
  /\ AuthInit
  /\ LayoutInit
  /\ TabsInit
  /\ MoreInit
  /\ \E ids \in SUBSET ViewTaskIds : ViewMounted(ids)

NextView ==
  \/ \E ids \in SUBSET ViewTaskIds : SetTasks(ids)
  \/ \E e \in Events : EventChange(e)
  \/ Unmount
  \/ \E k \in Kinds : CleanupAgain(k)
  \/ \E quiet \in BOOLEAN : ViewWatcher(quiet)
  \/ ViewPoll
  \/ ViewSignal
  \/ ViewDebounce

SpecView == InitView /\ [][NextView]_vars

\* One day of one task list is laid out.
InitLayout ==
  /\ task_assignments = {}
  /\ nextId = 1
  /\ volunteerId = [c \in Clients |-> Null]
  /\ localStorage = NoVolunteer
  /\ returnedNoTask = FALSE
  /\ ClientInit
  /\ SyncInit
  /\ AuthInit
  /\ RestInit
  /\ day \in Days
  /\ filteredTasks = <<>>
  /\ positioned = <<>>
  /\ laidOut = FALSE

NextLayout ==
  \/ \E r \in TaskRows : AddTask(r)
  \/ RenderDay

SpecLayout == InitLayout /\ [][NextLayout]_vars

\* One day of one filtered task list is laid out for client c1, signed in as
\* v1 or signed out ('mine' stays selected after a sign-out).
InitFilter ==
  /\ task_assignments = {}
  /\ nextId = 1
  /\ \E v \in {"v1", Null} : volunteerId = [c \in Clients |-> IF c = "c1" THEN v ELSE Null]
  /\ localStorage = NoVolunteer
  /\ returnedNoTask = FALSE
  /\ ClientInit
  /\ SyncInit
  /\ AuthInit
  /\ TabsInit
  /\ ViewInit
  /\ CursorInit
  /\ RefreshInit
  /\ day \in Days
  /\ filteredTasks = <<>>
  /\ positioned = <<>>
  /\ laidOut = FALSE
  /\ taskList = <<>>
  /\ filterTaskType \in {"all", "ty1"}
  /\ filterVolunteer \in {"all", "unassigned", "mine"}

NextFilter ==
  \/ \E r \in ListRows : ListTask(r)
  \/ RenderFiltered("c1")

SpecFilter == InitFilter /\ [][NextFilter]_vars

\* Two views of one event: c1 signed in as v1, c2 signed out.
InitCursor ==
  /\ task_assignments = {}
  /\ nextId = 1
  /\ volunteerId = [c \in Clients |-> IF c = "c1" THEN "v1" ELSE Null]
  /\ localStorage = Saved("v1")
  /\ returnedNoTask = FALSE
  /\ ClientInit
  /\ SyncInit
  /\ AuthInit
  /\ LayoutInit
  /\ TabsInit
  /\ ViewInit
  /\ FilterInit
  /\ CursorInit
  /\ RefreshInit

NextCursor ==
  \/ \E c \in Clients, pt \in CursorPoints : throttledSend(c, pt)
  \/ \E c \in Clients : handlePointerLeave(c)
  \/ \E c \in Clients : PruneSweep(c)
  \/ \E c \in Clients : CursorEffectRerun(c)
  \/ \E c \in Clients : CursorReload(c)
  \/ CursorStep
  \/ CursorTick

SpecCursor == InitCursor /\ [][NextCursor]_vars

\* The views of one event whose refresh reads may fail.
InitRefresh ==
  /\ task_assignments = {}
  /\ nextId = 1
  /\ volunteerId = [c \in Clients |-> Null]
  /\ localStorage = NoVolunteer
  /\ returnedNoTask = FALSE
  /\ ClientInit
  /\ SyncInit
  /\ AuthInit
  /\ LayoutInit
  /\ RestInit

NextRefresh ==
  \/ \E c \in Clients, kind \in ReadKinds : RefreshTasksRead(c, kind)
  \/ \E c \in Clients, kind \in ReadKinds, throws \in BOOLEAN :
       RefreshVolunteersRead(c, kind, throws)
  \/ \E t \in EnvTasks, v \in Volunteers : StoreInsert(t, v)
  \/ \E a \in task_assignments : StoreDelete(a)
  \/ \E r \in volunteers : StoreVolunteerGone(r)

SpecRefresh == InitRefresh /\ [][NextRefresh]_vars

\* ---------------------------------------------------------------- claims

H == Event.max_volunteer_hours

\* C1: the Store never holds more assignments for a task than the task's
\* volunteers_required, whatever the interleaving of assign attempts.
C1_CapacityNeverExceeded ==
  \A t \in TaskIds : AssignmentCount(task_assignments, t) <= Task[t].volunteers_required

\* No (task, volunteer) pair has two rows in the Store.
C2_NoRowTwice ==
  \A a, b \in task_assignments :
    (a.task_id = b.task_id /\ a.volunteer_id = b.volunteer_id) => a = b

\* An insert for a pair the Store already holds creates no row and leaves the
\* unique-constraint error.
C2_DuplicateRejected ==
  \A c \in Clients :
    (/\ call[c].pc = "insert"
     /\ call'[c].pc # "insert"
     /\ IsAssigned(task_assignments, call[c].task, call[c].vol))
    => (task_assignments' = task_assignments /\ error'[c].kind = "unique")

\* C2: the Store never holds two assignments for one (task, volunteer) pair, and
\* an insert for a pair the Store already holds is rejected with an error and
\* creates no row, whatever the client's snapshot said.
C2_NoDuplicateAssignment == [](C2_NoRowTwice) /\ [][C2_DuplicateRejected]_vars

\* A client whose snapshot did not show its volunteer's assignment had the insert
\* rejected by the Store.
C2_Witness ==
  \E c \in Clients, t \in TaskIds :
    /\ error[c].kind = "unique"
    /\ volunteerId[c] # Null
    /\ IsAssigned(task_assignments, t, volunteerId[c])
    /\ ~IsAssigned(tasks[c], t, volunteerId[c])

\* An insert is issued only when the volunteer's hours in the snapshot plus the
\* task's hours are within max_volunteer_hours.
C3_InsertOnlyWithinCap ==
  \A c \in Clients :
    (call[c].pc = "idle" /\ call'[c].pc = "insert")
    => HoursOf(tasks[c], call'[c].vol) + Task[call'[c].task].hours <= H

\* The hour-limit error is raised only beyond max_volunteer_hours, and then no
\* insert is issued.
C3_HourErrorOnlyBeyondCap ==
  \A c \in Clients :
    (error'[c].kind = "hourcap" /\ error'[c] # error[c])
    => (error'[c].current + error'[c].task > H /\ call'[c].pc = "idle")

\* C3: an assign attempt that reaches the hour check is rejected with the
\* hour-limit error, and issues no insert, if and only if the volunteer's hours
\* in the snapshot plus the task's hours exceed max_volunteer_hours.
C3_HourCapIff == [][C3_InsertOnlyWithinCap /\ C3_HourErrorOnlyBeyondCap]_vars

\* The Store rejected client c's insert or delete in this step.
C9_Rejected(c) ==
  \/ /\ call[c].pc = "insert"
     /\ call'[c].pc = "idle"
     /\ ~InsertAccepted(task_assignments, call[c].task, call[c].vol)
  \/ /\ call[c].pc = "delete"
     /\ call'[c].pc = "idle"
     /\ error'[c].kind = "failed"

\* C9: when the Store rejects an insert or a delete, the handler sets an error
\* and refreshes the snapshot from the Store.
C9_RejectionResyncs ==
  [][\A c \in Clients :
       C9_Rejected(c) => (error'[c].kind # "none" /\ tasks'[c] = task_assignments')]_vars

\* C10: no volunteer's assigned hours in the Store exceed max_volunteer_hours.
C10_HoursWithinCap ==
  \A v \in Volunteers : HoursOf(task_assignments, v) <= H

\* C4: polling, once started, stops only after a change-feed signal was handled.
C4_PollingUntilSignal ==
  [][(pollRef >= 0 /\ pollRef' = -1) => feedSeen]_vars

\* A change-feed signal is handled in this step.
C5_SignalHandled ==
  (feedBroad /\ ~feedBroad') \/ (feedFiltered /\ ~feedFiltered')

C5_ThrottledIssue ==
  /\ Len(reads'[SyncClient]) = Len(reads[SyncClient]) + 1
  /\ reads'[SyncClient][Len(reads'[SyncClient])].cont = "throttle"

\* One step of the throttle: a throttled read needs the cooldown elapsed; a
\* signal inside the cooldown issues nothing; the timeout is due at the last
\* refresh + cooldown.
C5_Step ==
  /\ C5_ThrottledIssue => (refreshAge >= COOLDOWN /\ refreshAge' = 0)
  /\ (feedBroad /\ ~feedBroad' /\ refreshAge < COOLDOWN)
       => (reads' = reads /\ pendingRefresh' = COOLDOWN - refreshAge)
  /\ (pendingRefresh' >= 0) => (pendingRefresh' + refreshAge' = COOLDOWN)

C6_LatestReadWins ==
  reads[SyncClient] = <<>> => tasks[SyncClient] = lastIssued[SyncClient]

\* C7: once Store mutations have stopped, the snapshot eventually equals the
\* Store's rows and stays equal, with or without feed and broadcast signals.
C7_EventuallyConsistent == <>[](tasks[SyncClient] = task_assignments)

\* A poll brought in a mutation that no change-feed signal announced.
C7_Witness ==
  /\ ~feedUp /\ ~feedSeen /\ quietAge = 0
  /\ task_assignments # {}
  /\ tasks[SyncClient] = task_assignments

\* C8: with the feed down, a mutation made while the view is polling is in the
\* snapshot within one poll interval (and the read's latency).
C8_PollingConverges ==
  (/\ mutPolling /\ ~feedUp
   /\ mutAge > POLL_INTERVAL + MaxLatency
   /\ reads[SyncClient] = <<>>)
  => tasks[SyncClient] = task_assignments

\* Two items share an instant of their clipped [start, end).
Overlap(a, b) ==
  \E x \in 0..MaxTime : a.start <= x /\ x < a.end /\ b.start <= x /\ x < b.end

\* C11: any two items getDayItems places in the same column have clipped
\* [start, end) intervals that do not overlap.
C11_SameColumnDisjoint ==
  laidOut =>
    \A i, j \in 1..Len(positioned) :
      (i # j /\ positioned[i]._col = positioned[j]._col)
      => ~Overlap(positioned[i], positioned[j])

\* A laid-out day with two columns, one of them reused by a later item.
C11_Witness ==
  /\ laidOut
  /\ \E i, j, k \in 1..Len(positioned) :
       /\ i # j
       /\ positioned[i]._col = positioned[j]._col
       /\ positioned[i].start < positioned[i].end
       /\ positioned[j].start < positioned[j].end
       /\ positioned[k]._col # positioned[i]._col
       /\ Overlap(positioned[k], positioned[i])

\* The largest number of items whose clipped [start, end) share an instant.
MaxOverlap(its) ==
  Max({Cardinality({i \in 1..Len(its) : its[i].start <= x /\ x < its[i].end}) :
         x \in 0..MaxTime})

\* C12: the column count getDayItems reports equals the largest number of
\* groups whose clipped [start, end) intervals contain a common instant.
C12_ColumnsEqualMaxOverlap ==
  (laidOut /\ positioned # <<>>) => positioned[1]._cols = MaxOverlap(positioned)

\* Task i of the list is in the day's layout.
Included(i) == \E k \in 1..Len(positioned) : i \in positioned[k].tasks

\* C20: getDayItems includes a task if and only if its [start, end) intersects
\* the day's [dayStart, next day's start); touching a boundary is not enough.
C20_IncludedIffIntersects ==
  laidOut =>
    \A i \in 1..Len(filteredTasks) :
      Included(i) <=> (/\ filteredTasks[i].start < dayStart(day) + DayTicks
                       /\ filteredTasks[i].end > dayStart(day))

\* No name has two rows in volunteers.
C13_NameOnce == \A a, b \in volunteers : a.name = b.name => a = b

\* A handleAuth step for a name the Store already holds creates no row.
C13_NoSecondRecord ==
  \A c \in Clients :
    (/\ authCall[c].pc # "idle"
     /\ authCall'[c] # authCall[c]
     /\ \E r \in volunteers : r.name = authCall[c].name)
    => volunteers' = volunteers

\* The step in which handleAuth signs in holds and persists the id of the
\* name's row.
C13_HoldsThatId ==
  \A c \in Clients :
    (authCall[c].pc # "idle" /\ showAuthModal[c] /\ ~showAuthModal'[c])
    => \E r \in volunteers' :
         /\ r.name = authCall[c].name
         /\ volunteerId'[c] = r.id
         /\ localStorage' = [id |-> r.id, name |-> r.name]

\* C13: under any interleaving of sign-ins the Store holds at most one
\* volunteer per name, a sign-in with an existing name creates no record, and
\* a sign-in that succeeds leaves the client holding and persisting the id of
\* that volunteer.
C13_OneVolunteerPerName ==
  [](C13_NameOnce) /\ [][C13_NoSecondRecord /\ C13_HoldsThatId]_vars

\* Two tabs raced to create the same name: one created it, the other was
\* refused by the Store, signed in again and now holds the same id.
C13_Witness ==
  \E c, d \in Clients :
    /\ c # d
    /\ volunteerId[c] # Null
    /\ volunteerId[c] = volunteerId[d]
    /\ Cardinality(volunteers) = 1
    /\ error[c].kind = "none" /\ error[d].kind = "none"
    /\ authCall[d].pc = "idle"

\* The step in which client c's insert or delete returns without a Store error.
MutationSucceeds(c) ==
  /\ call[c].pc \in {"insert", "delete"}
  /\ call'[c].pc = "idle"
  /\ error'[c].kind = "none"

GoneTaskRequest(c) ==
  \/ \E t \in GoneTaskIds : handleAssignTask(c, t)
  \/ \E t \in GoneTaskIds : handleUnassignTask(c, t)
  \/ \E name \in Volunteers : pendingTaskId[c] \in GoneTaskIds /\ handleAuth(c, name)

\* C15: an assign or unassign request for a task id absent from the snapshot
\* issues no Store mutation, sets no error message, posts no broadcast and
\* leaves the snapshot unchanged.
C15_GoneTaskNoOp ==
  [][\A c \in Clients :
       GoneTaskRequest(c) =>
         /\ UNCHANGED <<task_assignments, nextId, tasks, bcInbox>>
         /\ call'[c].pc = "idle"
         /\ error'[c] \in {error[c], NoError}]_vars

\* A signed-in volunteer with an assignment in the Store has asked for a task
\* that is in no snapshot, and the handler has returned at the lookup.
C15_Witness ==
  /\ returnedNoTask
  /\ task_assignments # {}
  /\ \A c \in Clients : call[c].pc = "idle" /\ error[c].kind = "none"

\* The delete of client c's handleUnassignTask returns without a Store error:
\* the volunteer's assignment on the task is gone and no other row is touched.
C16_DeletesHeldAssignment ==
  \A c \in Clients :
    (call[c].pc = "delete" /\ call'[c].pc = "idle" /\ error'[c].kind = "none")
    => task_assignments' =
         {a \in task_assignments :
            ~(a.task_id = call[c].task /\ a.volunteer_id = call[c].vol)}

\* handleUnassignTask with a snapshot that shows no assignment of the
\* volunteer on the task issues nothing and reports nothing.
C16_NoneShownNoOp ==
  \A c \in Clients, t \in TaskIds :
    (/\ handleUnassignTask(c, t)
     /\ ~IsAssigned(tasks[c], t, volunteerId[c]))
    => /\ call'[c].pc = "idle"
       /\ error'[c].kind = "none"
       /\ UNCHANGED task_assignments

\* C16: handleUnassignTask deletes exactly the assignment the current
\* volunteer holds on the task and leaves the others unchanged; when the
\* snapshot shows no such assignment it issues no mutation and no error.
C16_UnassignExactlyMine == [][C16_DeletesHeldAssignment /\ C16_NoneShownNoOp]_vars

\* At most one trailing refresh timer is armed.
C19_OneTimer == Len(timeouts) <= 1

\* A subscription handler calls throttledRefresh inside the cooldown: no read
\* is issued, the time of the last refresh stands, and the one timer armed is
\* due when the cooldown ends, whatever was armed before.
C19_CallInsideCooldown ==
  ((BroadHandler \/ TasksHandler) /\ refreshAge < COOLDOWN)
  => /\ reads' = reads
     /\ refreshAge' = refreshAge
     /\ timeouts' = <<COOLDOWN - refreshAge>>

C18_SignalStep ==
  \/ feedBroad /\ ~feedBroad'
  \/ feedFiltered /\ ~feedFiltered'
  \/ feedTasks /\ ~feedTasks'

\* The watcher fires in this step.
C18_WatcherStep == watcher = 0 /\ watcher' = WATCH_INTERVAL

\* A signal restarts the quiet age; the watcher tick that follows a signal
\* received while polling stops the polling; and polling starts only in a
\* watcher tick that finds more than QUIET_THRESHOLD since the last signal.
C18_Step ==
  /\ C18_SignalStep => quietAge' = 0
  /\ (C18_WatcherStep /\ pollRef >= 0 /\ feedSeen) => pollRef' = -1
  /\ (pollRef = -1 /\ pollRef' >= 0) => (C18_WatcherStep /\ quietAge > QUIET_THRESHOLD)
  /\ reads'[SyncClient] # reads[SyncClient] /\ pollRef = -1
       => \A i \in 1..Len(reads'[SyncClient]) :
            reads'[SyncClient][i].cont = "poll" => \E j \in 1..Len(reads[SyncClient]) :
              reads[SyncClient][j].cont = "poll"

\* C18: while polling, a signal of the task_assignments or tasks subscription
\* stops the polling at the next watcher tick, which is never more than
\* WATCH_INTERVAL away, and no poll is issued until the feed has been quiet
\* for more than QUIET_THRESHOLD again.
C18_SignalReturnsToLive ==
  [](watcher \in 0..WATCH_INTERVAL) /\ [][C18_Step]_vars

\* Polling is on, a signal has been handled since it started, and the
\* watcher's tick is due.
C18_Witness ==
  /\ pollRef >= 0
  /\ feedSeen
  /\ watcher = 0
  /\ quietAge <= WATCH_INTERVAL
  /\ ~feedBroad /\ ~feedFiltered /\ ~feedTasks

\* A read issued by the poll interval is in flight.
C17_PollInFlight ==
  \E i \in 1..Len(reads[SyncClient]) : reads[SyncClient][i].cont = "poll"

\* C17: with the change feed not delivering (the subscriptions did not come
\* up), the sync controller never sets the error message, and as long as the
\* feed stays down the poll interval keeps issuing reads.
C17_PollingAlone ==
  /\ [](error[SyncClient].kind = "none")
  /\ (<>[](~feedUp)) => []<>C17_PollInFlight

\* The feed is down and has signalled nothing since polling started; after
\* two mutations of other clients a poll is bringing in the rows the snapshot
\* lacks.
C17_Witness ==
  /\ ~feedUp /\ ~feedSeen
  /\ nextId > 2
  /\ error[SyncClient].kind = "none"
  /\ tasks[SyncClient] # task_assignments
  /\ \E i \in 1..Len(reads[SyncClient]) :
       /\ reads[SyncClient][i].cont = "poll"
       /\ reads[SyncClient][i].data = task_assignments

\* C28: the pending assignment run by handleAuth issues its insert exactly
\* when a direct handleAssignTask of the volunteer just signed in would: the
\* duplicate, capacity and hour checks are those of that volunteer.
C28_PendingValidatedForResolved ==
  [][\A c \in Clients :
       (/\ pendingTaskId[c] \in TaskIds
        /\ showAuthModal[c] /\ ~showAuthModal'[c]
        /\ volunteerId'[c] # Null)
       => (call'[c].pc = "insert"
             <=> ValidateAssign(tasks[c], pendingTaskId[c],
                                volunteerId'[c], volunteerId'[c]) = "insert")]_vars

\* The most postMessage calls one Store change gives rise to: the handler's
\* own and one per subscription handler of each tab.
C29_PostsPerChange == 1 + 2 * Cardinality(Clients)

\* A tab's onmessage takes a 'refresh' without posting and without a Store change.
C29_ReceiveOnlyReads ==
  \A c \in Clients :
    bcQueue'[c] < bcQueue[c]
    => /\ posted' = posted
       /\ changes' = changes
       /\ \A d \in Clients \ {c} : bcQueue'[d] = bcQueue[d]

\* C29: receiving 'refresh' posts nothing, so the postMessage calls stay
\* within a fixed number per Store change and the tabs cannot keep each
\* other refreshing.
C29_NoRefreshLoop ==
  [](posted <= changes * C29_PostsPerChange) /\ [][C29_ReceiveOnlyReads]_vars

\* Every post a Store change can give rise to was made, every message was
\* received, and nothing is left to handle.
C29_Witness ==
  /\ changes >= 1
  /\ posted = changes * C29_PostsPerChange
  /\ \A c \in Clients : bcQueue[c] = 0 /\ broadQueue[c] = 0 /\ filteredQueue[c] = 0

\* The filtered subscriptions the client holds.
C21_Filtered == {ch \in channels : ch.kind = "filtered"}

C22_NoTimerSurvivesTeardown ==
  /\ \A t \in Timers : timers[t] # Null => (mounted /\ timers[t] = eventId)
  /\ ~staleRefresh

\* C23: calling a subscription cleanup again, after it has run, removes no
\* channel again and leaves the refs and channels as the first call left them.
C23_CleanupIdempotent ==
  [][\A k \in Kinds : CleanupAgain(k) => UNCHANGED <<channels, channelRef, removals>>]_vars

\* The task a group's member index stands for.
C24_Member(i) == filteredTasks[i]

\* The task passes the filters that are set (type; unassigned; mine for the
\* signed-in volunteer), stated on the task row itself.
C24_PassesFilters(t) ==
  /\ filterTaskType = "all" \/ t.task_type_id = filterTaskType
  /\ filterVolunteer = "unassigned" =>
       Cardinality(t.task_assignments) < t.volunteers_required
  /\ (filterVolunteer = "mine" /\ volunteerId["c1"] # Null) =>
       volunteerId["c1"] \in t.task_assignments

\* The task's [start, end) has an instant of the day.
C24_OnDay(t) == t.start < dayStart(day) + DayTicks /\ t.end > dayStart(day)

\* Every group has a member, and every member is a task of the snapshot that
\* passes the filters.
C24_MembersPassFilters ==
  laidOut =>
    \A k \in 1..Len(positioned) :
      /\ positioned[k].tasks # {}
      /\ \A i \in positioned[k].tasks :
           /\ \E j \in 1..Len(taskList) : taskList[j] = C24_Member(i)
           /\ C24_PassesFilters(C24_Member(i))

\* A group's counts are the sums over its members.
C24_CountsAreSums ==
  laidOut =>
    \A k \in 1..Len(positioned) :
      LET g == positioned[k].tasks IN
      /\ positioned[k].volunteers_required =
           reduce([i \in g |-> C24_Member(i).volunteers_required], g)
      /\ positioned[k].assignment_count =
           reduce([i \in g |-> Cardinality(C24_Member(i).task_assignments)], g)

\* A task the filters remove is a member of no group.
C24_RemovedInNoGroup ==
  laidOut =>
    \A j \in 1..Len(taskList) :
      ~C24_PassesFilters(taskList[j]) =>
        \A k \in 1..Len(positioned) :
          \A i \in positioned[k].tasks : C24_Member(i).id # taskList[j].id

\* Every member of every group intersects the day.
C24_MembersOnDay ==
  laidOut =>
    \A k \in 1..Len(positioned) :
      \A i \in positioned[k].tasks : C24_OnDay(C24_Member(i))

\* C24: every group getDayItems emits has at least one member, every member
\* passes the active type and status filters and intersects the day, the
\* group's volunteers_required and assignment_count are the sums over exactly
\* those members, and a task removed by a filter is in no group.
C24_GroupsOverFilteredDayTasks ==
  /\ C24_MembersPassFilters
  /\ C24_CountsAreSums
  /\ C24_RemovedInNoGroup
  /\ C24_MembersOnDay

\* A prune sweep leaves no entry whose last-seen is PRUNE_MS old or older, and
\* keeps every fresher entry as it was.
C25_SweepStep ==
  \A c \in Clients :
    PruneSweep(c) =>
      /\ \A k \in DOMAIN cursors'[c] : cursors'[c][k].age < PRUNE_MS
      /\ \A k \in DOMAIN cursors[c] :
           cursors[c][k].age < PRUNE_MS =>
             k \in DOMAIN cursors'[c] /\ cursors'[c][k] = cursors[c][k]

C25_SweepRemovesStale == [][C25_SweepStep]_vars

\* No entry is in a map more than 8 s after its last update.
C25_NoEntryOlderThan8 ==
  \A c \in Clients :
    \A k \in DOMAIN cursors[c] : cursors[c][k].age <= PRUNE_MS + PRUNE_INTERVAL

\* C25: after every prune sweep (every 2 s) no entry remains whose last-seen is
\* 6 s old or older, so no entry survives more than 8 s after its last update,
\* and fresher entries are kept unchanged.
C25_StaleCursorsPruned == C25_SweepRemovesStale /\ []C25_NoEntryOlderThan8

\* C26: any two consecutive cursor broadcasts of one client are at least 80 ms
\* apart, whatever pointer-move, pointer-down, touch and pointer-leave events
\* occur.
C26_BroadcastsThrottled == ~closeBroadcast

\* A pointer-leave of client c leaves its volunteer's entry where it was in
\* every other client's map.
C27_LeaveStep ==
  \A c \in Clients :
    handlePointerLeave(c) =>
      \A d \in Clients \ {c} :
        volunteerId[c] \in DOMAIN cursors[d] =>
          /\ volunteerId[c] \in DOMAIN cursors'[d]
          /\ cursors'[d][volunteerId[c]].leftPct = cursors[d][volunteerId[c]].leftPct
          /\ cursors'[d][volunteerId[c]].topPct = cursors[d][volunteerId[c]].topPct

\* An entry leaves a map only in a prune sweep of that map (or with the page).
C27_RemovalStep ==
  \A d \in Clients :
    (\E k \in DOMAIN cursors[d] : k \notin DOMAIN cursors'[d]) =>
      PruneSweep(d) \/ CursorReload(d)

C27_RemovedOnlyByPrune == [][C27_RemovalStep]_vars

\* C27: a pointer-leave never moves the viewer's cursor in any receiver's map:
\* the entry keeps the last broadcast position (it is not reset to 0,0) and is
\* removed only by the staleness prune.
C27_LeaveKeepsPosition == [][C27_LeaveStep /\ C27_RemovalStep]_vars

\* Client c's refresh read has just failed or returned no data.
C30_NoDataRead(c) ==
  \/ \E kind \in ReadKinds \ {"ok"} : RefreshTasksRead(c, kind)
  \/ \E kind \in ReadKinds \ {"ok"}, throws \in BOOLEAN :
       RefreshVolunteersRead(c, kind, throws)

\* C30: a refresh whose Store read fails or returns no data leaves the task
\* and volunteer snapshot exactly as it was and sets no user-visible error.
C30_FailedReadKeepsSnapshot ==
  [][\A c \in Clients :
       C30_NoDataRead(c) =>
         /\ tasks'[c] = tasks[c]
         /\ volunteerList'[c] = volunteerList[c]
         /\ error'[c] = error[c]]_vars

\* A client whose last read failed holds a non-empty task snapshot and a
\* non-empty volunteer snapshot that the Store no longer matches.
C30_Witness ==
  \E c \in Clients :
    /\ lastRead[c] \in {"error", "nodata"}
    /\ tasks[c] # {} /\ tasks[c] # task_assignments
    /\ volunteerList[c] # {} /\ volunteerList[c] # volunteers
====
